---- MODULE Spec2Model ----
(***************************************************************************)
(* Model of the lexer of src/lexer/lexer.rs: the sixteen token matchers,   *)
(* the scan step lex, and the Lexer iterator (new, next) as the tests      *)
(* drive it, through the standard one-slot peeking adaptor.                *)
(*                                                                         *)
(* A string slice (&str) is a sequence of characters; a character is a    *)
(* one-character string, or "U+XXXX" for a character outside ASCII.  The   *)
(* UTF-8 width of each character is kept, because the number matcher       *)
(* mixes a character count with a byte offset.                             *)
(***************************************************************************)
EXTENDS Integers, Sequences, FiniteSets, TLC

VARIABLES
    input,      \* the text handed to Lexer::new
    status,     \* "ready", or "panic" once a call has aborted
    current,    \* Lexer.current : Option<Token>
    code,       \* Lexer.code : the remaining slice
    peeked,     \* the peeking adaptor's slot : Option<Option<Token>>
    op,         \* the last call made: "new", "next" or "peek"
    ret,        \* what that call returned : Option<Token>
    out,        \* the tokens next() has returned so far, in order
    calls,      \* how many calls of next() have returned
    sawNone,    \* whether some call of next() has returned None
    m_fn,       \* the function a unit test applied to input ("" when none)
    m_res       \* what that function returned

lexerVars == <<input, status, current, code, peeked, op, ret, out, calls, sawNone>>
vars == <<input, status, current, code, peeked, op, ret, out, calls, sawNone,
          m_fn, m_res>>

(***************************************************************************)
(* Bounds of the model.                                                    *)
(***************************************************************************)
\* longest input enumerated exhaustively over SmallAlphabet
MaxLen == 3
\* longest slice enumerated exhaustively over Alphabet for the matchers
MaxMatchLen == 2
\* calls of next() allowed beyond the length of the input
MaxExtraCalls == 2

(***************************************************************************)
(* Characters.                                                             *)
(***************************************************************************)
AsciiDigits == <<"0", "1", "2", "3", "4", "5", "6", "7", "8", "9">>

IsAsciiDigit(c) == \E i \in 1..10 : AsciiDigits[i] = c

DigitValue(c) == (CHOOSE i \in 1..10 : AsciiDigits[i] = c) - 1

\* U+00BD VULGAR FRACTION ONE HALF (No) and U+0663 ARABIC-INDIC DIGIT THREE
\* (Nd) are numeric without being ASCII digits; both take two bytes.
NonAsciiNumeric == {"U+00BD", "U+0663"}

\* char::is_numeric : the Unicode categories Nd, Nl and No
is_numeric(c) == IsAsciiDigit(c) \/ c \in NonAsciiNumeric

\* char::is_whitespace : the White_Space property (U+3000 IDEOGRAPHIC SPACE)
is_whitespace(c) == c \in {" ", "\t", "\n", "U+3000"}

\* char::len_utf8
len_utf8(c) ==
    CASE c \in {"U+00BD", "U+0663", "U+00E9"} -> 2
      [] c = "U+3000" -> 3
      [] OTHER -> 1

\* str::len : the length in bytes
RECURSIVE len(_)
len(s) == IF s = <<>> THEN 0 ELSE len_utf8(Head(s)) + len(Tail(s))

\* str::is_char_boundary
is_char_boundary(s, index) ==
    \E k \in 0..Len(s) : len(SubSeq(s, 1, k)) = index

\* the number of characters that end at byte offset index, a character boundary
CharsBefore(s, index) ==
    CHOOSE k \in 0..Len(s) : len(SubSeq(s, 1, k)) = index

\* a trim that drops one whitespace character at most
trim_start_one(s) ==
    IF s # <<>> /\ is_whitespace(Head(s)) THEN Tail(s) ELSE s

\* str::trim_start
RECURSIVE trim_start(_)
trim_start(s) ==
    IF s # <<>> /\ is_whitespace(Head(s)) THEN trim_start(Tail(s)) ELSE s

(***************************************************************************)
(* Tokens, options and matcher results.                                    *)
(***************************************************************************)
LParen == [kind |-> "LParen"]
RParen == [kind |-> "RParen"]
LBrace == [kind |-> "LBrace"]
RBrace == [kind |-> "RBrace"]
LAngleBracket == [kind |-> "LAngleBracket"]
RAngleBracket == [kind |-> "RAngleBracket"]
Plus == [kind |-> "Plus"]
Minus == [kind |-> "Minus"]
Asterisk == [kind |-> "Asterisk"]
Slash == [kind |-> "Slash"]
Ban == [kind |-> "Ban"]
Underbar == [kind |-> "Underbar"]
Apostrophe == [kind |-> "Apostrophe"]
Question == [kind |-> "Question"]
Equals == [kind |-> "Equals"]
Number(n) == [kind |-> "Number", n |-> n]

\* Option<T>: None is the empty sequence, Some(x) the sequence of x alone
None == <<>>
Some(x) == <<x>>

\* Option<Lexed>, with the third outcome of a call: it aborts (a panic)
NoMatch == [tag |-> "None"]
Lexed(token, rest) == [tag |-> "Some", token |-> token, rest |-> rest]
Abort == [tag |-> "Panic"]

(***************************************************************************)
(* The matchers.                                                           *)
(***************************************************************************)
\* i32::MAX, the largest payload of Token::Number
I32Max == 2147483647

\* str::parse::<i32> : an optional sign, then ASCII digits accumulated with
\* checked arithmetic; anything else, or a value out of range, is an error
RECURSIVE ParseDigits(_, _, _)
ParseDigits(s, acc, positive) ==
    IF s = <<>> THEN [ok |-> TRUE, n |-> acc]
    ELSE IF ~IsAsciiDigit(Head(s)) THEN [ok |-> FALSE, n |-> 0]
    ELSE LET d == DigitValue(Head(s)) IN
         IF positive
         THEN IF acc > I32Max \div 10 \/ d > I32Max - (acc * 10)
              THEN [ok |-> FALSE, n |-> 0]
              ELSE ParseDigits(Tail(s), (acc * 10) + d, positive)
         ELSE IF -acc > I32Max \div 10
                 \/ d - 1 > I32Max - ((-acc) * 10)
              THEN [ok |-> FALSE, n |-> 0]
              ELSE ParseDigits(Tail(s), (acc * 10) - d, positive)

\* a parse whose addition of a digit wraps around instead of failing
RECURSIVE ParseDigitsWrapping(_, _)
ParseDigitsWrapping(s, acc) ==
    IF s = <<>> THEN [ok |-> TRUE, n |-> acc]
    ELSE IF ~IsAsciiDigit(Head(s)) \/ acc < 0 \/ acc > I32Max \div 10
    THEN [ok |-> FALSE, n |-> 0]
    ELSE LET d == DigitValue(Head(s)) IN
         IF d > I32Max - (acc * 10)
         THEN ParseDigitsWrapping(Tail(s),
                                  (((acc * 10) - I32Max) + (d - I32Max)) - 2)
         ELSE ParseDigitsWrapping(Tail(s), (acc * 10) + d)

parse_i32_wrapping(s) ==
    IF s = <<>> THEN [ok |-> FALSE, n |-> 0]
    ELSE IF Head(s) \in {"+", "-"}
    THEN IF Tail(s) = <<>> THEN [ok |-> FALSE, n |-> 0]
         ELSE ParseDigits(Tail(s), 0, Head(s) = "+")
    ELSE ParseDigitsWrapping(s, 0)

parse_i32(s) ==
    IF s = <<>> THEN [ok |-> FALSE, n |-> 0]
    ELSE IF Head(s) \in {"+", "-"}
    THEN IF Tail(s) = <<>> THEN [ok |-> FALSE, n |-> 0]
         ELSE ParseDigits(Tail(s), 0, Head(s) = "+")
    ELSE ParseDigits(s, 0, TRUE)

\* chars.position(|c| !c.is_numeric()) : the count of characters before the
\* first one that is not numeric, -1 when every character is numeric
position_not_numeric(s) ==
    IF \E i \in 1..Len(s) : ~is_numeric(s[i])
    THEN (CHOOSE i \in 1..Len(s) :
            ~is_numeric(s[i]) /\ \A j \in 1..(i - 1) : is_numeric(s[j])) - 1
    ELSE -1

\* a number matcher that takes the first digit only
number_single_digit(s) ==
    IF s # <<>> /\ IsAsciiDigit(Head(s))
    THEN Lexed(Number(DigitValue(Head(s))), Tail(s))
    ELSE NoMatch

number(s) ==
    LET pos == position_not_numeric(s)
        index == IF pos = -1 THEN len(s) ELSE pos
    IN  IF index = 0 THEN NoMatch
        ELSE IF ~is_char_boundary(s, index) THEN Abort
        ELSE LET k == CharsBefore(s, index)
                 num == parse_i32(SubSeq(s, 1, k))
                 rest == SubSeq(s, k + 1, Len(s))
             IN  IF num.ok THEN Lexed(Number(num.n), rest) ELSE NoMatch

\* a character matcher that passes over leading whitespace first
char_trims(s, target, token) ==
    IF trim_start(s) # <<>> /\ Head(trim_start(s)) = target
    THEN Lexed(token, Tail(trim_start(s)))
    ELSE NoMatch

char(s, target, token) ==
    IF s # <<>> /\ Head(s) = target THEN Lexed(token, Tail(s)) ELSE NoMatch

l_paren(s) == char(s, "(", LParen)
r_paren(s) == char(s, ")", RParen)
l_brace(s) == char(s, "[", LBrace)
r_brace(s) == char(s, "]", RBrace)
l_angle_bracket(s) == char(s, "<", LAngleBracket)
r_angle_bracket(s) == char(s, ">", RAngleBracket)
plus(s) == char(s, "+", Plus)
minus(s) == char(s, "-", Minus)
asterisk(s) == char(s, "*", Asterisk)
slash(s) == char(s, "/", Slash)
ban(s) == char(s, "!", Ban)
underbar(s) == char(s, "_", Underbar)
apostrophe(s) == char(s, "'", Apostrophe)
question(s) == char(s, "?", Question)
equals(s) == char(s, "=", Equals)

\* the matcher table of lex, in its order
functions ==
    <<"l_paren", "r_paren", "l_brace", "r_brace", "l_angle_bracket",
      "r_angle_bracket", "plus", "minus", "asterisk", "slash", "ban",
      "underbar", "apostrophe", "question", "equals", "number">>

\* f(code) for the entry f of the table
Call(f, s) ==
    CASE f = "l_paren" -> l_paren(s)
      [] f = "r_paren" -> r_paren(s)
      [] f = "l_brace" -> l_brace(s)
      [] f = "r_brace" -> r_brace(s)
      [] f = "l_angle_bracket" -> l_angle_bracket(s)
      [] f = "r_angle_bracket" -> r_angle_bracket(s)
      [] f = "plus" -> plus(s)
      [] f = "minus" -> minus(s)
      [] f = "asterisk" -> asterisk(s)
      [] f = "slash" -> slash(s)
      [] f = "ban" -> ban(s)
      [] f = "underbar" -> underbar(s)
      [] f = "apostrophe" -> apostrophe(s)
      [] f = "question" -> question(s)
      [] f = "equals" -> equals(s)
      [] f = "number" -> number(s)

\* functions.iter().find_map(..) from entry i on: the first result that is
\* not None; a matcher that aborts aborts the scan
RECURSIVE find_map(_, _)
find_map(i, s) ==
    IF i > Len(functions) THEN NoMatch
    ELSE LET r == Call(functions[i], trim_start(s)) IN
         IF r = NoMatch THEN find_map(i + 1, s) ELSE r

lex(s) == find_map(1, s)

(***************************************************************************)
(* The Lexer.                                                              *)
(***************************************************************************)
\* Lexer::new : the outcome of the constructor on the text s
new(s) ==
    LET lexed == lex(s) IN
    IF lexed = Abort
    THEN [status |-> "panic", current |-> None, code |-> s]
    ELSE IF lexed.tag = "Some"
    THEN [status |-> "ready", current |-> Some(lexed.token), code |-> lexed.rest]
    ELSE [status |-> "ready", current |-> None, code |-> <<>>]

\* a next() that leaves the remaining slice in place when the scan fails
Lexer_next_keeps_code(cur, cd) ==
    LET lexed == lex(cd) IN
    IF lexed = Abort
    THEN [panic |-> TRUE, token |-> None, current |-> cur, code |-> cd]
    ELSE IF lexed.tag = "Some"
    THEN [panic |-> FALSE, token |-> cur,
          current |-> Some(lexed.token), code |-> lexed.rest]
    ELSE [panic |-> FALSE, token |-> cur, current |-> None, code |-> cd]

\* a next() that returns the lookahead after refilling it
Lexer_next_returns_refilled(cur, cd) ==
    LET lexed == lex(cd) IN
    IF lexed = Abort
    THEN [panic |-> TRUE, token |-> None, current |-> cur, code |-> cd]
    ELSE IF lexed.tag = "Some"
    THEN [panic |-> FALSE, token |-> Some(lexed.token),
          current |-> Some(lexed.token), code |-> lexed.rest]
    ELSE [panic |-> FALSE, token |-> None, current |-> None, code |-> <<>>]

\* <Lexer as Iterator>::next on the lexer (cur, cd): what it returns and
\* the fields it leaves; the scan step may abort before anything is assigned
Lexer_next(cur, cd) ==
    LET token == cur
        lexed == lex(cd)
    IN  IF lexed = Abort
        THEN [panic |-> TRUE, token |-> None, current |-> cur, code |-> cd]
        ELSE IF lexed.tag = "Some"
        THEN [panic |-> FALSE, token |-> token,
              current |-> Some(lexed.token), code |-> lexed.rest]
        ELSE [panic |-> FALSE, token |-> token, current |-> None, code |-> <<>>]

\* the bookkeeping of a call of next() that returned r
Returned(r) ==
    /\ op' = "next"
    /\ ret' = r
    /\ out' = IF r = None THEN out ELSE Append(out, r[1])
    /\ calls' = calls + 1
    /\ sawNone' = (sawNone \/ r = None)

\* next() with nothing peeked: Lexer::next itself
next ==
    /\ status = "ready"
    /\ m_fn = ""
    /\ peeked = None
    /\ calls < Len(input) + MaxExtraCalls
    /\ LET r == Lexer_next(current, code) IN
       IF r.panic
       THEN /\ status' = "panic"
            /\ UNCHANGED <<current, code, peeked, op, ret, out, calls, sawNone>>
       ELSE /\ current' = r.current
            /\ code' = r.code
            /\ Returned(r.token)
            /\ UNCHANGED <<status, peeked>>
    /\ UNCHANGED <<input, m_fn, m_res>>

\* Peekable::peek : fills the slot from Lexer::next when it is empty, and
\* returns the slot's value
peek ==
    /\ status = "ready"
    /\ m_fn = ""
    /\ IF peeked = None
       THEN LET r == Lexer_next(current, code) IN
            IF r.panic
            THEN /\ status' = "panic"
                 /\ UNCHANGED <<current, code, peeked, op, ret>>
            ELSE /\ current' = r.current
                 /\ code' = r.code
                 /\ peeked' = Some(r.token)
                 /\ op' = "peek"
                 /\ ret' = r.token
                 /\ UNCHANGED status
       ELSE /\ op' = "peek"
            /\ ret' = peeked[1]
            /\ UNCHANGED <<status, current, code, peeked>>
    /\ UNCHANGED <<input, out, calls, sawNone, m_fn, m_res>>

\* Peekable::next with a peeked value: takes it out of the slot
take ==
    /\ status = "ready"
    /\ m_fn = ""
    /\ peeked # None
    /\ calls < Len(input) + MaxExtraCalls
    /\ peeked' = None
    /\ Returned(peeked[1])
    /\ UNCHANGED <<input, status, current, code, m_fn, m_res>>

\* a unit test applies one matcher of the table to the text
call_matcher ==
    /\ m_fn = ""
    /\ op = "new"
    /\ \E i \in 1..Len(functions) :
          /\ m_fn' = functions[i]
          /\ m_res' = Call(functions[i], input)
    /\ UNCHANGED lexerVars

\* a unit test applies the scan step to the text
call_lex ==
    /\ m_fn = ""
    /\ op = "new"
    /\ m_fn' = "lex"
    /\ m_res' = lex(input)
    /\ UNCHANGED lexerVars

(***************************************************************************)
(* The texts the model runs on.                                            *)
(***************************************************************************)
Lexemes ==
    {"(", ")", "[", "]", "<", ">", "+", "-", "*", "/", "!", "_", "'", "?", "="}

\* every lexeme, some digits, whitespace of one and of three bytes, and
\* characters no matcher takes: ASCII, two-byte, numeric and not
Alphabet ==
    Lexemes \cup {"0", "1"} \cup {" ", "U+3000"}
            \cup {"~", "c", "U+00E9", "U+00BD", "U+0663"}

SmallAlphabet == {"(", ")", "+", "1", "0", " ", "~", "U+00BD"}

StringsUpTo(A, n) == UNION {[1..k -> A] : k \in 0..n}

FixedInputs ==
    { <<"(", "=", " ", "1", " ", "(", "+", " ", "2", " ", "3", ")", ")">>,
      <<"(", "+", "1", "2", ")">>,
      <<"(", " ", "+", " ", "1", " ", "2", " ", ")">>,
      <<"(", "=", " ", "1", " ", "2", ")">>,
      <<"(", "+", " ", "1", " ", "2", ")">>,
      <<"+", "1", "2", "3">>,
      <<"-", "4", "5">>,
      <<"1", "2", "3", "c">>,
      <<"1", "2", "3">>,
      <<"+", " ", "1", " ", "2">>,
      <<" ", " ", " ", " ", "7", " ", " ">>,
      <<"0", "0", "0", "0", "0", "0", "0", "0", "0", "0", "1", "2">>,
      <<"2", "1", "4", "7", "4", "8", "3", "6", "4", "7">>,
      <<"2", "1", "4", "7", "4", "8", "3", "6", "4", "8">>,
      <<"2", "1", "4", "7", "4", "8", "3", "6", "5", "0">>,
      <<"4", "2", "9", "4", "9", "6", "7", "2", "9", "7">>,
      <<"9", "9", "9", "9", "9", "9", "9", "9", "9", "9", "9">>,
      <<"(", "+", " ", "1", " ", "2", "1", "4", "7", "4", "8", "3", "6", "4", "7", ")">>,
      <<"(", "+", " ", "1", " ", "2", "1", "4", "7", "4", "8", "3", "6", "4", "8", ")">>,
      <<"(", "1", "2", "U+00BD", ")">>,
      <<"(", "U+0663", " ", "1", ")">> }

Inputs ==
    StringsUpTo(SmallAlphabet, MaxLen) \cup StringsUpTo(Alphabet, MaxMatchLen)
        \cup FixedInputs

(***************************************************************************)
(* The specification.                                                      *)
(***************************************************************************)
Init ==
    /\ input \in Inputs
    /\ LET l == new(input) IN
          /\ status = l.status
          /\ current = l.current
          /\ code = l.code
    /\ peeked = None
    /\ op = "new"
    /\ ret = None
    /\ out = <<>>
    /\ calls = 0
    /\ sawNone = FALSE
    /\ m_fn = ""
    /\ m_res = NoMatch

Next == next \/ peek \/ take \/ call_matcher \/ call_lex

Spec == Init /\ [][Next]_vars

(***************************************************************************)
(* The reference tokenization, stated without the matchers: whitespace is  *)
(* passed over, a lexeme character gives its token, a maximal run of       *)
(* decimal digits that fits a signed 32-bit integer gives a Number, and    *)
(* anything else ends the sequence.                                        *)
(***************************************************************************)
TokenOf(c) ==
    CASE c = "(" -> LParen
      [] c = ")" -> RParen
      [] c = "[" -> LBrace
      [] c = "]" -> RBrace
      [] c = "<" -> LAngleBracket
      [] c = ">" -> RAngleBracket
      [] c = "+" -> Plus
      [] c = "-" -> Minus
      [] c = "*" -> Asterisk
      [] c = "/" -> Slash
      [] c = "!" -> Ban
      [] c = "_" -> Underbar
      [] c = "'" -> Apostrophe
      [] c = "?" -> Question
      [] c = "=" -> Equals

\* the number of decimal digits s begins with
RECURSIVE DigitRunLen(_)
DigitRunLen(s) ==
    IF s # <<>> /\ IsAsciiDigit(Head(s)) THEN 1 + DigitRunLen(Tail(s)) ELSE 0

RECURSIVE StripZeros(_)
StripZeros(d) ==
    IF d # <<>> /\ Head(d) = "0" THEN StripZeros(Tail(d)) ELSE d

MaxDigits == <<"2", "1", "4", "7", "4", "8", "3", "6", "4", "7">>

\* whether the decimal digit string d denotes a value of at most 2147483647
FitsI32(d) ==
    LET z == StripZeros(d) IN
    \/ Len(z) < Len(MaxDigits)
    \/ /\ Len(z) = Len(MaxDigits)
       /\ \/ z = MaxDigits
          \/ \E i \in 1..Len(z) :
                /\ DigitValue(z[i]) < DigitValue(MaxDigits[i])
                /\ \A j \in 1..(i - 1) : z[j] = MaxDigits[j]

\* the value of a digit string that fits
RECURSIVE Horner(_, _)
Horner(d, acc) ==
    IF d = <<>> THEN acc ELSE Horner(Tail(d), (acc * 10) + DigitValue(Head(d)))

DecimalValue(d) == Horner(StripZeros(d), 0)

\* toks: the tokens of s in source order up to the first text that is no
\* token; rest: that text (empty when all of s was tokens and whitespace)
RECURSIVE Ref(_)
Ref(s) ==
    IF s = <<>> THEN [toks |-> <<>>, rest |-> <<>>]
    ELSE IF is_whitespace(Head(s)) THEN Ref(Tail(s))
    ELSE IF Head(s) \in Lexemes
    THEN LET r == Ref(Tail(s)) IN
         [toks |-> <<TokenOf(Head(s))>> \o r.toks, rest |-> r.rest]
    ELSE IF IsAsciiDigit(Head(s)) /\ FitsI32(SubSeq(s, 1, DigitRunLen(s)))
    THEN LET k == DigitRunLen(s)
             r == Ref(SubSeq(s, k + 1, Len(s)))
         IN  [toks |-> <<Number(DecimalValue(SubSeq(s, 1, k)))>> \o r.toks,
              rest |-> r.rest]
    ELSE [toks |-> <<>>, rest |-> s]

\* the i-th element of a sequence as an Option
Nth(seq, i) == IF i \in 1..Len(seq) THEN Some(seq[i]) ELSE None

Prefix(seq, n) == SubSeq(seq, 1, IF n < Len(seq) THEN n ELSE Len(seq))

\* the calls of next() so far returned exactly the first elements of toks,
\* in order, and None from then on
Delivered(toks) ==
    /\ out = Prefix(toks, calls)
    /\ sawNone = (calls > Len(toks))
    /\ op = "next" => ret = Nth(toks, calls)

Range(s) == {s[i] : i \in 1..Len(s)}

(***************************************************************************)
(* C1                                                                      *)
(***************************************************************************)
\* the inputs of C1: lexemes, decimal digits and whitespace only, every
\* digit run within i32
C1_Input(s) ==
    /\ \A c \in Range(s) : c \in Lexemes \/ IsAsciiDigit(c) \/ is_whitespace(c)
    /\ Ref(s).rest = <<>>

\* C1: on an input of lexemes, decimal digits and whitespace whose digit
\* runs fit i32, Lexer::new followed by repeated next() returns exactly the
\* reference tokenization in source order and then None (so "+12" gives
\* Plus, Number(12), never a signed number).
C1_Tokenization ==
    C1_Input(input) => status = "ready" /\ Delivered(Ref(input).toks)

C1_Witness ==
    /\ input = <<"(", "=", " ", "1", " ", "(", "+", " ", "2", " ", "3", ")", ")">>
    /\ out = <<LParen, Equals, Number(1), LParen, Plus, Number(2), Number(3),
               RParen, RParen>>
    /\ sawNone
    /\ op = "next"
    /\ ret = None

(***************************************************************************)
(* C2                                                                      *)
(***************************************************************************)
\* C2: once next() has returned None, every later call returns None, no
\* token is yielded again, and current is None and code is empty.
C2_ExhaustionPermanent ==
    /\ [](sawNone => /\ ret = None
                     /\ current = None
                     /\ code = <<>>
                     /\ peeked \in {None, Some(None)})
    /\ [][sawNone => sawNone' /\ out' = out]_vars

\* scanning stopped at "~" with ")" left unread, and two calls returned None
C2_Witness ==
    /\ input = <<"(", "~", ")">>
    /\ out = <<LParen>>
    /\ sawNone
    /\ calls = 3
    /\ code = <<>>

(***************************************************************************)
(* C3                                                                      *)
(***************************************************************************)
\* the tokens the scan step gives when applied over and over from s
RECURSIVE Tokens(_)
Tokens(s) ==
    LET r == lex(s) IN
    IF r.tag = "Some" THEN <<r.token>> \o Tokens(r.rest) ELSE <<>>

\* C3 as stated: every peek leaves the lexer's lookahead and remaining
\* slice as they were.
C3_PeekLeavesLexerUnchanged ==
    [][op' = "peek" => current' = current /\ code' = code]_vars

\* C3, amended: consecutive peeks return the same value, which is the next
\* token of the input not yet returned; a peek after a peek changes nothing
\* at all, while the first peek after new or next() moves the lookahead into
\* the adaptor's slot and runs one scan step; next() returns the value
\* peeked, and the stream advances by exactly one token.
C3_PeekConsume ==
    /\ [](status = "ready" =>
            /\ op = "peek" => ret = Nth(Tokens(input), calls + 1)
            /\ op = "next" => ret = Nth(Tokens(input), calls)
            /\ peeked # None => peeked = Some(Nth(Tokens(input), calls + 1)))
    /\ [][(op = "peek" /\ op' = "peek") => ret' = ret]_vars
    /\ [][(op' = "peek" /\ peeked # None) =>
            UNCHANGED <<current, code, peeked, out, calls>>]_vars
    /\ [][(op = "peek" /\ op' = "next" /\ calls' = calls + 1) => ret' = ret]_vars

\* peeked twice at Plus after consuming LParen, then consumed it, then peeked
C3_Witness ==
    /\ input = <<"(", "+", "1", "2", ")">>
    /\ op = "peek"
    /\ ret = Some(Number(12))
    /\ out = <<LParen, Plus>>
    /\ peeked = Some(Some(Number(12)))

(***************************************************************************)
(* C4                                                                      *)
(***************************************************************************)
\* C4: on any input, repeated next() returns the well-formed tokens that
\* precede the first unrecognized character, in order, and then None; with
\* no token before it the outcome is that of the empty input.
C4_TruncatesSilently ==
    status = "ready" /\ Delivered(Ref(input).toks)

\* the same statement on the inputs free of numeric characters outside ASCII
C4_OnAsciiNumerics ==
    Range(input) \cap NonAsciiNumeric = {} => C4_TruncatesSilently

(***************************************************************************)
(* C5                                                                      *)
(***************************************************************************)
\* a character that is no digit of any script
NonDigit(c) == ~IsAsciiDigit(c) /\ c # "U+0663"

\* C5: number(D) for a non-empty digit string D within i32 is
\* Number(parse(D)) with nothing left, number(D + C) for a non-digit
\* character C is Number(parse(D)) with C left, and number of a text that
\* does not begin with a digit is no match.
C5_MaximalDigitPrefix ==
    m_fn = "number" =>
        LET k == DigitRunLen(input)
            D == SubSeq(input, 1, k)
        IN  /\ (k = 0 /\ (input = <<>> \/ NonDigit(input[1]))) => m_res = NoMatch
            /\ (/\ k > 0
                /\ FitsI32(D)
                /\ \/ Len(input) = k
                   \/ Len(input) = k + 1 /\ NonDigit(input[k + 1]))
               => m_res = Lexed(Number(DecimalValue(D)),
                                SubSeq(input, k + 1, Len(input)))

(***************************************************************************)
(* C6                                                                      *)
(***************************************************************************)
\* the fifteen single-character matchers: name, lexeme, token
SingleCharMatchers ==
    << <<"l_paren", "(", LParen>>, <<"r_paren", ")", RParen>>,
       <<"l_brace", "[", LBrace>>, <<"r_brace", "]", RBrace>>,
       <<"l_angle_bracket", "<", LAngleBracket>>,
       <<"r_angle_bracket", ">", RAngleBracket>>,
       <<"plus", "+", Plus>>, <<"minus", "-", Minus>>,
       <<"asterisk", "*", Asterisk>>, <<"slash", "/", Slash>>,
       <<"ban", "!", Ban>>, <<"underbar", "_", Underbar>>,
       <<"apostrophe", "'", Apostrophe>>, <<"question", "?", Question>>,
       <<"equals", "=", Equals>> >>

\* C6: the matcher of lexeme L with token T succeeds exactly when the slice
\* begins with L; it then returns T and the slice less its first character,
\* and otherwise no match, leading whitespace not being skipped.
C6_SingleCharMatchers ==
    \A i \in 1..Len(SingleCharMatchers) :
        LET m == SingleCharMatchers[i] IN
        m_fn = m[1] =>
            IF input # <<>> /\ input[1] = m[2]
            THEN /\ m_res.tag = "Some"
                 /\ m_res.token = m[3]
                 /\ <<m[2]>> \o m_res.rest = input
            ELSE m_res = NoMatch

\* "=" followed by a two-byte character leaves exactly that character
C6_Witness ==
    /\ input = <<"=", "U+00E9">>
    /\ m_fn = "equals"
    /\ m_res = Lexed(Equals, <<"U+00E9">>)

(***************************************************************************)
(* C7                                                                      *)
(***************************************************************************)
\* the number of whitespace characters s begins with
RECURSIVE LeadingSpace(_)
LeadingSpace(s) ==
    IF s # <<>> /\ is_whitespace(Head(s)) THEN 1 + LeadingSpace(Tail(s)) ELSE 0

\* C7 as stated: the rest of a scan step, and the lexer's remaining slice,
\* never begin with whitespace.
C7_RestNeverBeginsWithSpace ==
    /\ (m_fn = "lex" /\ m_res.tag = "Some") =>
           (m_res.rest = <<>> \/ ~is_whitespace(m_res.rest[1]))
    /\ status = "ready" => (code = <<>> \/ ~is_whitespace(code[1]))

\* C7, amended: the scan step passes over all the whitespace before a
\* lexeme, whatever its length, and makes no token of it; the rest it
\* returns is the text right after the lexeme, whitespace included, which
\* the following scan step passes over in turn.
C7_LeadingWhitespaceSkipped ==
    /\ m_fn = "lex" =>
          LET w == LeadingSpace(input)
              t == SubSeq(input, w + 1, Len(input))
          IN  /\ t = <<>> => m_res = NoMatch
              /\ (t # <<>> /\ t[1] \in Lexemes) =>
                     m_res = Lexed(TokenOf(t[1]), SubSeq(t, 2, Len(t)))
              /\ m_res.tag = "Some" =>
                     \E k \in 1..Len(t) :
                        /\ m_res.rest = SubSeq(t, k + 1, Len(t))
                        /\ \A j \in 1..k : ~is_whitespace(t[j])
    /\ (status = "ready" /\ current # None) =>
          Len(code) < Len(input) - LeadingSpace(input)
    /\ (\A c \in Range(input) : is_whitespace(c)) =>
          (status = "ready" /\ current = None /\ out = <<>>)

\* four blanks skipped before "7", and the two after it left in the rest
C7_Witness ==
    /\ input = <<" ", " ", " ", " ", "7", " ", " ">>
    /\ m_fn = "lex"
    /\ m_res = Lexed(Number(7), <<" ", " ">>)

(***************************************************************************)
(* C8                                                                      *)
(***************************************************************************)
\* the number of numeric characters s begins with
RECURSIVE NumericRunLen(_)
NumericRunLen(s) ==
    IF s # <<>> /\ is_numeric(Head(s)) THEN 1 + NumericRunLen(Tail(s)) ELSE 0

\* C8: the number matcher returns Number(n) for a digit run of value at
\* most 2147483647 and no match for a digit run above it, never a wrapped
\* or negative Number; in the Lexer a run above it ends the stream after
\* the tokens before it.
C8_OverflowIsNoMatch ==
    /\ (m_fn = "number" /\ m_res.tag = "Some") =>
          m_res.token.n \in 0..I32Max
    /\ (/\ m_fn = "number"
        /\ DigitRunLen(input) > 0
        /\ NumericRunLen(input) = DigitRunLen(input)) =>
          LET k == DigitRunLen(input)
              D == SubSeq(input, 1, k)
          IN  m_res = IF FitsI32(D)
                      THEN Lexed(Number(DecimalValue(D)),
                                 SubSeq(input, k + 1, Len(input)))
                      ELSE NoMatch
    /\ (\A c \in Range(input) :
            c \in Lexemes \/ IsAsciiDigit(c) \/ is_whitespace(c)) =>
          (status = "ready" /\ Delivered(Ref(input).toks))

\* 2147483648 ends the stream after "(", "+" and 1 have been yielded
C8_Witness ==
    /\ input = <<"(", "+", " ", "1", " ",
                 "2", "1", "4", "7", "4", "8", "3", "6", "4", "8", ")">>
    /\ out = <<LParen, Plus, Number(1)>>
    /\ sawNone
    /\ Ref(input).rest # <<>>

(***************************************************************************)
(* C9                                                                      *)
(***************************************************************************)
\* C9: each of the sixteen matchers and the scan step return a match or no
\* match on any slice and never abort, and no match on the empty slice.
C9_MatchersTotal ==
    m_fn # "" =>
        /\ m_res # Abort
        /\ input = <<>> => m_res = NoMatch

(***************************************************************************)
(* C10                                                                     *)
(***************************************************************************)
\* C10: a successful scan step returns a strictly shorter rest, so on an
\* input of n characters the Lexer yields at most n tokens, no call fails
\* to return, and next() has returned None once n + 1 calls were made.
C10_TerminatesWithinLength ==
    /\ (m_fn = "lex" /\ m_res.tag = "Some") => Len(m_res.rest) < Len(input)
    /\ status = "ready"
    /\ Len(out) <= Len(input)
    /\ calls >= Len(input) + 1 => sawNone
====
